---- MODULE Spec2Model ----
(***************************************************************************)
(* A model of scripts/vision.js of the Perfect Vision module: the patched  *)
(* PointSource.prototype.initialize (the radius resolver), computeFov and  *)
(* its per-pass cache, the patched drawLight, the illumination layers and  *)
(* refresh().                                                              *)
(*                                                                         *)
(* JavaScript numbers are modelled as exact rationals extended with        *)
(* Infinity, -Infinity and NaN (rounding is abstracted, the special values *)
(* are not). Polygon vertices are kept in polar form around the source:    *)
(* a vertex is the ray it lies on and its distance from the source, so     *)
(* that Ray.distance and Ray.project are exact.                            *)
(***************************************************************************)
EXTENDS Integers, Sequences, FiniteSets, TLC

VARIABLES
    cfg,       \* what the host holds: token, scene dimensions, flags, settings
    src,       \* the token's vision source, with the fields the module adds (ext)
    data,      \* data.dim and data.bright as handed to the host's initialize
    loc,       \* the rules and radii the last pass resolved
    seed,      \* the entry the last pass created its fovCache with
    calls,     \* the computeFov calls of the last pass, with their results
    fovCache,  \* the fovCache of the last pass as the pass left it
    err,       \* what the last pass raised to its caller
    npass,     \* the number of passes made
    fc,        \* the last call of computeFov made on its own: arguments and result
    ilm,       \* the lighting and sight layers and the illumination container
    ill,       \* the source's illumination container as drawLight left it
    rf         \* refresh(): canvas.ready, refreshHookID and the canvasReady hooks

vars == <<cfg, src, data, loc, seed, calls, fovCache, err, npass, fc, ilm, ill, rf>>

\* ------------------------------------------------------------------ bounds

MaxPasses == 2

\* canvas.lighting.version is not raised beyond this
MaxVersion == 1

\* the ids Hooks.once hands out are not raised beyond this
MaxHookID == 1

\* -------------------------------------------------------- JavaScript numbers

AbsInt(n) == IF n < 0 THEN -n ELSE n

RECURSIVE GCD(_, _)
GCD(a, b) == IF b = 0 THEN a ELSE GCD(b, a % b)

NaN == [k |-> "nan", n |-> 0, d |-> 0]
PosInf == [k |-> "inf", n |-> 1, d |-> 0]
NegInf == [k |-> "inf", n |-> -1, d |-> 0]

\* the rational n/d (d # 0) in lowest terms with a positive denominator
Rat(n, d) ==
    LET g == GCD(AbsInt(n), AbsInt(d))
        s == IF d < 0 THEN -1 ELSE 1
    IN  [k |-> "fin", n |-> (s * n) \div g, d |-> (s * d) \div g]

Fin(n) == [k |-> "fin", n |-> n, d |-> 1]

Zero == Fin(0)
One == Fin(1)

IsNaN(a) == a.k = "nan"
IsFin(a) == a.k = "fin"
IsInf(a) == a.k = "inf"

SgnInt(n) == IF n > 0 THEN 1 ELSE IF n < 0 THEN -1 ELSE 0

\* Math.sign
JsSign(a) == IF IsNaN(a) THEN NaN ELSE Fin(SgnInt(a.n))

\* Math.abs
JsAbs(a) ==
    IF IsNaN(a) THEN NaN
    ELSE IF IsInf(a) THEN PosInf
    ELSE [a EXCEPT !.n = AbsInt(a.n)]

InfOf(s) == IF s < 0 THEN NegInf ELSE PosInf

\* a * b
JsMul(a, b) ==
    IF IsNaN(a) \/ IsNaN(b) THEN NaN
    ELSE IF IsInf(a) \/ IsInf(b)
         THEN IF a.n = 0 \/ b.n = 0 THEN NaN ELSE InfOf(SgnInt(a.n) * SgnInt(b.n))
    ELSE Rat(a.n * b.n, a.d * b.d)

\* a / b
JsDiv(a, b) ==
    IF IsNaN(a) \/ IsNaN(b) THEN NaN
    ELSE IF IsInf(a) THEN (IF IsInf(b) THEN NaN
                           ELSE InfOf(a.n * (IF b.n < 0 THEN -1 ELSE 1)))
    ELSE IF IsInf(b) THEN Zero
    ELSE IF b.n = 0 THEN (IF a.n = 0 THEN NaN ELSE InfOf(a.n))
    ELSE Rat(a.n * b.d, a.d * b.n)

\* a + b
JsAdd(a, b) ==
    IF IsNaN(a) \/ IsNaN(b) THEN NaN
    ELSE IF IsInf(a) THEN (IF IsInf(b) /\ a.n # b.n THEN NaN ELSE a)
    ELSE IF IsInf(b) THEN b
    ELSE Rat(a.n * b.d + b.n * a.d, a.d * b.d)

\* a < b
JsLt(a, b) ==
    IF IsNaN(a) \/ IsNaN(b) THEN FALSE
    ELSE IF IsInf(a) THEN a.n < 0 /\ a # b
    ELSE IF IsInf(b) THEN b.n > 0
    ELSE a.n * b.d < b.n * a.d

\* a === b
JsEq(a, b) == ~IsNaN(a) /\ ~IsNaN(b) /\ a = b

\* a <= b,  a > b,  a >= b
JsLe(a, b) == JsLt(a, b) \/ JsEq(a, b)
JsGt(a, b) == JsLt(b, a)
JsGe(a, b) == JsLe(b, a)

\* Math.min, Math.max of two arguments
JsMin(a, b) == IF IsNaN(a) \/ IsNaN(b) THEN NaN ELSE IF JsLt(b, a) THEN b ELSE a
JsMax(a, b) == IF IsNaN(a) \/ IsNaN(b) THEN NaN ELSE IF JsLt(a, b) THEN b ELSE a

\* Math.max of a sequence of arguments
RECURSIVE JsMaxSeq(_)
JsMaxSeq(s) == IF Len(s) = 1 THEN s[1] ELSE JsMax(s[1], JsMaxSeq(Tail(s)))

\* Math.clamped(num, min, max) of the host: Math.min(max, Math.max(num, min))
Clamped(x, lo, hi) == JsMin(hi, JsMax(x, lo))

\* Math.hypot on the integer legs the model uses
Hypot(a, b) ==
    LET n == a * a + b * b
    IN  Fin(CHOOSE r \in 0..(AbsInt(a) + AbsInt(b)) : r * r = n)

\* ------------------------------------------------------------ flag values

\* JavaScript undefined, for a string-valued flag or setting that is not set
Undefined == "<undefined>"

\* x || y on string values: undefined and "" are falsy
Truthy(v) == v \notin {Undefined, ""}
OrElse(a, b) == IF Truthy(a) THEN a ELSE b

\* d.maxR of a host that does not define it
UndefNum == [k |-> "undef", n |-> 0, d |-> 0]

\* a ?? b on numbers
Coalesce(a, b) == IF a = UndefNum THEN b ELSE a

\* The text parseFloat works on is String(value), as a sequence of characters.
\* String(undefined):
UndefinedText == <<"u", "n", "d", "e", "f", "i", "n", "e", "d">>
InfinityText == <<"I", "n", "f", "i", "n", "i", "t", "y">>

Digits == <<"0", "1", "2", "3", "4", "5", "6", "7", "8", "9">>
IsDigit(ch) == \E i \in 1..10 : Digits[i] = ch
DigitVal(ch) == (CHOOSE i \in 1..10 : Digits[i] = ch) - 1

RECURSIVE SkipSpace(_)
SkipSpace(t) == IF t # <<>> /\ Head(t) = " " THEN SkipSpace(Tail(t)) ELSE t

\* the longest prefix of digits of t
RECURSIVE DigitPrefix(_)
DigitPrefix(t) ==
    IF t # <<>> /\ IsDigit(Head(t)) THEN <<Head(t)>> \o DigitPrefix(Tail(t)) ELSE <<>>

RECURSIVE DigitsValue(_, _)
DigitsValue(t, acc) ==
    IF t = <<>> THEN acc ELSE DigitsValue(Tail(t), 10 * acc + DigitVal(Head(t)))

RECURSIVE Pow10(_)
Pow10(n) == IF n = 0 THEN 1 ELSE 10 * Pow10(n - 1)

IsPrefix(p, t) == Len(p) <= Len(t) /\ SubSeq(t, 1, Len(p)) = p

\* parseFloat: leading blanks, an optional sign, then Infinity or the longest
\* decimal literal (digits, optional fraction); NaN when there is none
FractionDigits(t) == IF t # <<>> /\ Head(t) = "." THEN DigitPrefix(Tail(t)) ELSE <<>>

ParseDecimal(neg, ip, fp) ==
    IF ip = <<>> /\ fp = <<>> THEN NaN
    ELSE Rat((IF neg THEN -1 ELSE 1) * DigitsValue(ip \o fp, 0), Pow10(Len(fp)))

ParseDigits(neg, t, ip) == ParseDecimal(neg, ip, FractionDigits(SubSeq(t, Len(ip) + 1, Len(t))))

ParseUnsigned(neg, t) ==
    IF IsPrefix(InfinityText, t) THEN (IF neg THEN NegInf ELSE PosInf)
    ELSE ParseDigits(neg, t, DigitPrefix(t))

ParseSigned(t) ==
    ParseUnsigned(t # <<>> /\ Head(t) = "-",
                  IF t # <<>> /\ Head(t) \in {"-", "+"} THEN Tail(t) ELSE t)

ParseFloat(text) == ParseSigned(SkipSpace(text))

\* -------------------------------------------------------------- vision rules

RuleFields ==
    {"dimVisionInDarkness", "dimVisionInDimLight",
     "brightVisionInDarkness", "brightVisionInDimLight"}

DarknessTags ==
    {"bright", "bright_mono", "dim", "dim_mono", "scene", "scene_mono", "darkness"}
DimLightTags == {"bright", "dim"}

Rules(a, b, c, d) ==
    [dimVisionInDarkness |-> a, dimVisionInDimLight |-> b,
     brightVisionInDarkness |-> c, brightVisionInDimLight |-> d]

\* presets.js
presets ==
    [fvtt   |-> Rules("dim", "dim", "bright", "bright"),
     dnd35e |-> Rules("darkness", "dim", "bright_mono", "bright"),
     dnd5e  |-> Rules("dim", "bright", "bright", "bright"),
     pf1e   |-> Rules("darkness", "dim", "bright_mono", "bright"),
     pf2e   |-> Rules("darkness", "bright", "bright_mono", "bright")]

\* let visionRules = document.getFlag("perfect-vision", "visionRules") || "default"
TokenVisionRules(c) == OrElse(c.tflags.visionRules, "default")

\* the preset name the lookup of lines 339-348 works with: "default" stands for
\* the world setting
PresetName(c) ==
    IF TokenVisionRules(c) = "default" THEN c.world.visionRules ELSE TokenVisionRules(c)

\* presets[visionRules].field raises a TypeError when presets[visionRules] is
\* undefined
RulesRaise(c) ==
    /\ TokenVisionRules(c) # "custom"
    /\ PresetName(c) # "custom"
    /\ PresetName(c) \notin DOMAIN presets

\* the value a rule field holds before the world-setting fallback (lines 333-349)
RuleBeforeFallback(c, f) ==
    IF TokenVisionRules(c) = "custom" THEN c.tflags[f]
    ELSE IF PresetName(c) # "custom" THEN presets[PresetName(c)][f]
    ELSE Undefined

\* a resolution that asks the world setting first
ResolveRule_WorldFirst(c, f) == OrElse(c.world[f], RuleBeforeFallback(c, f))

\* field = field || game.settings.get("perfect-vision", field)
ResolveRule(c, f) == OrElse(RuleBeforeFallback(c, f), c.world[f])

ResolveRules(c) == [f \in RuleFields |-> ResolveRule(c, f)]

\* ---------------------------------------------------------- radius resolver

\* getLightRadius(token, units)
getLightRadius(c, units) ==
    IF JsEq(units, Zero) THEN Zero
    ELSE JsMul(JsAdd(JsMul(JsDiv(JsAbs(units), Fin(c.dims.distance)), Fin(c.dims.size)),
                     JsDiv(Fin(c.token.w), Fin(2))),
               JsSign(units))

\* minR = Math.min(token.w, token.h) * 0.5
MinR(c) == JsMul(JsMin(Fin(c.token.w), Fin(c.token.h)), Rat(1, 2))

\* maxR = d.maxR ?? Math.hypot(d.sceneWidth, d.sceneHeight)
MaxR(c) == Coalesce(c.dims.maxR, Hypot(c.dims.sceneWidth, c.dims.sceneHeight))

\* sign = Math.min(dim, bright) < 0 ? -1 : +1, on the pixel radii as
\* getLightRadius returned them
SignOf(dim0, bright0) == IF JsLt(JsMin(dim0, bright0), Zero) THEN Fin(-1) ELSE One

\* dim = Math.min(Math.abs(dim), maxR)
\* a clamp that drops a radius beyond maxR instead of cutting it off
ClampedRadius_Dropped(r0, maxR) == IF JsGt(JsAbs(r0), maxR) THEN Zero ELSE JsAbs(r0)

\* a radius that keeps its size beyond maxR
ClampedRadius_Unclamped(r0, maxR) == JsAbs(r0)

ClampedRadius(r0, maxR) == JsMin(JsAbs(r0), maxR)

\* the sightLimit flag as a number: the token's, or the scene's when the
\* token's parses to NaN
OrIfNaN(t, other) == IF IsNaN(t) THEN other ELSE t

SightLimitFlag(c) == OrIfNaN(ParseFloat(c.tflags.sightLimit), ParseFloat(c.sflags.sightLimit))

\* sightLimit after lines 370-380: NaN when no flag parses, otherwise
\* Math.max(getLightRadius(token, Math.abs(sightLimit)), minR)
SightLimit(c, flag, minR) ==
    IF IsNaN(flag) THEN NaN ELSE JsMax(getLightRadius(c, JsAbs(flag)), minR)

\* a radius after the sight-limit step
LimitRadius(flag, sightLimit, r) == IF ~IsNaN(flag) THEN JsMin(r, sightLimit) ELSE r

\* rule === a || rule === b ? r : 0
Branch(rule, tags, r) == IF rule \in tags THEN r ELSE Zero

\* data.dim and data.bright as the rules set them (lines 382-389)
RuleDim(rs, sign, dim, bright) ==
    JsMul(sign, JsMax(Branch(rs.dimVisionInDarkness, {"dim", "dim_mono"}, dim),
                      Branch(rs.brightVisionInDarkness, {"dim", "dim_mono"}, bright)))

RuleBright(rs, sign, dim, bright) ==
    JsMul(sign, JsMax(Branch(rs.dimVisionInDarkness, {"bright", "bright_mono"}, dim),
                      Branch(rs.brightVisionInDarkness, {"bright", "bright_mono"}, bright)))

\* a visionRadius that leaves the monochrome branches out
VisionRadius_NoMono(rs, dim, bright) ==
    JsMaxSeq(<<Branch(rs.dimVisionInDarkness, {"scene"}, dim),
               Branch(rs.dimVisionInDarkness, {"dim"}, dim),
               Branch(rs.dimVisionInDarkness, {"bright"}, dim),
               Branch(rs.brightVisionInDarkness, {"scene"}, bright),
               Branch(rs.brightVisionInDarkness, {"dim"}, bright),
               Branch(rs.brightVisionInDarkness, {"bright"}, bright)>>)

VisionRadius(rs, dim, bright) ==
    JsMaxSeq(<<Branch(rs.dimVisionInDarkness, {"scene", "scene_mono"}, dim),
               Branch(rs.dimVisionInDarkness, {"dim", "dim_mono"}, dim),
               Branch(rs.dimVisionInDarkness, {"bright", "bright_mono"}, dim),
               Branch(rs.brightVisionInDarkness, {"scene", "scene_mono"}, bright),
               Branch(rs.brightVisionInDarkness, {"dim", "dim_mono"}, bright),
               Branch(rs.brightVisionInDarkness, {"bright", "bright_mono"}, bright)>>)

VisionRadiusColor(rs, dim, bright) ==
    JsMaxSeq(<<Branch(rs.dimVisionInDarkness, {"scene"}, dim),
               Branch(rs.dimVisionInDarkness, {"dim"}, dim),
               Branch(rs.dimVisionInDarkness, {"bright"}, dim),
               Branch(rs.brightVisionInDarkness, {"scene"}, bright),
               Branch(rs.brightVisionInDarkness, {"dim"}, bright),
               Branch(rs.brightVisionInDarkness, {"bright"}, bright)>>)

VisionRadiusDimToBright(rs, dim, bright) ==
    JsMax(Branch(rs.dimVisionInDimLight, {"bright"}, dim),
          Branch(rs.brightVisionInDimLight, {"bright"}, bright))

\* this_.radius = Math.max(Math.abs(data.dim), Math.abs(data.bright))
ExtRadius(ruleDim, ruleBright) == JsMax(JsAbs(ruleDim), JsAbs(ruleBright))

\* data.dim = data.dim === 0 && data.bright === 0 ? minR : data.dim
\* a dim output that is never forced to minR
DataDim_Unforced(ruleDim, ruleBright, minR) == ruleDim

DataDim(ruleDim, ruleBright, minR) ==
    IF JsEq(ruleDim, Zero) /\ JsEq(ruleBright, Zero) THEN minR ELSE ruleDim

\* The locals of one pass that does not raise, in the order the code computes
\* them. Lines 382-417: the outputs of the rule branches.
ResolveOutputs(rs, minR, maxR, sign, flag, sightLimit, dim, bright, ruleDim, ruleBright) ==
    [rules |-> rs, minR |-> minR, maxR |-> maxR, sign |-> sign,
     hasLimit |-> ~IsNaN(flag), sightLimit |-> sightLimit,
     dim |-> dim, bright |-> bright,
     ruleDim |-> ruleDim, ruleBright |-> ruleBright,
     visionRadius |-> VisionRadius(rs, dim, bright),
     visionRadiusColor |-> VisionRadiusColor(rs, dim, bright),
     visionRadiusDimToBright |-> VisionRadiusDimToBright(rs, dim, bright),
     extRadius |-> ExtRadius(ruleDim, ruleBright),
     dataDim |-> DataDim(ruleDim, ruleBright, minR),
     dataBright |-> ruleBright]

ResolveBranches(rs, minR, maxR, sign, flag, sightLimit, dim, bright) ==
    ResolveOutputs(rs, minR, maxR, sign, flag, sightLimit, dim, bright,
                   RuleDim(rs, sign, dim, bright), RuleBright(rs, sign, dim, bright))

\* lines 370-380: the sight limit
ResolveLimit(rs, minR, maxR, sign, flag, sightLimit, dim, bright) ==
    ResolveBranches(rs, minR, maxR, sign, flag, sightLimit,
                    LimitRadius(flag, sightLimit, dim), LimitRadius(flag, sightLimit, bright))

\* lines 359-368: the pixel radii, their sign and the clamp to maxR
ResolveRadii(c, rs, minR, maxR, dim0, bright0, flag) ==
    ResolveLimit(rs, minR, maxR, SignOf(dim0, bright0), flag, SightLimit(c, flag, minR),
                 ClampedRadius(dim0, maxR), ClampedRadius(bright0, maxR))

Locals(c) ==
    ResolveRadii(c, ResolveRules(c), MinR(c), MaxR(c),
                 getLightRadius(c, Fin(c.token.dimSight)),
                 getLightRadius(c, Fin(c.token.brightSight)),
                 SightLimitFlag(c))

\* ------------------------------------------------------------------ computeFov

\* A polygon object: id is its identity (the pass that constructed it and its
\* number within the pass), points its vertices.
Polygon(pass, n, points) == [id |-> <<pass, n>>, points |-> points]

\* null, where a polygon is expected
Null == [id |-> <<0, 0>>, points |-> <<>>]

\* fovCache = null
NoCache == [present |-> FALSE, entries |-> <<>>, distance |-> UndefNum]

\* fovCache = {}
EmptyCache == [present |-> TRUE, entries |-> <<>>, distance |-> UndefNum]

\* a cache that starts from what the pass before left in its cache
SeededCache_Reused(key, polygon) ==
    [present |-> TRUE, entries |-> (key :> polygon) @@ fovCache.entries,
     distance |-> fovCache.distance]

\* fovCache = { [key]: polygon }
SeededCache(key, polygon) ==
    [present |-> TRUE, entries |-> (key :> polygon), distance |-> UndefNum]

\* fovCache && fovCache[radius]
CacheHit(cache, radius) == cache.present /\ radius \in DOMAIN cache.entries

\* fovCache?.distance ?? Math.max(source.radius, Math.hypot(...))
FovDistance(source, cache, d) ==
    Coalesce(cache.distance,
             JsMax(source.radius,
                   Hypot(IF source.x > d.width - source.x THEN source.x ELSE d.width - source.x,
                         IF source.y > d.height - source.y THEN source.y ELSE d.height - source.y)))

\* a projection of every vertex, the near ones too
Project_Always(p, limit, t0) == [p EXCEPT !.dist = JsMul(p.dist, JsDiv(limit, t0))]

\* a projection of the near vertices instead of the far ones
Project_Swapped(p, limit, t0) ==
    IF JsLe(t0, limit) THEN [p EXCEPT !.dist = JsMul(p.dist, JsDiv(limit, t0))] ELSE p

\* the vertex q that computeFov pushes for the line-of-sight vertex p, with
\* t0 = Math.clamped(r.distance / distance, 0, 1)
Project(p, limit, t0) ==
    IF JsLe(t0, limit) THEN p ELSE [p EXCEPT !.dist = JsMul(p.dist, JsDiv(limit, t0))]

FovPoint(p, limit, distance) == Project(p, limit, Clamped(JsDiv(p.dist, distance), Zero, One))

ClippedPoints(points, limit, distance) ==
    [i \in 1..Len(points) |-> FovPoint(points[i], limit, distance)]

\* fovPoints with the limit left at 1
FovPoints_Unclipped(source, radius, distance) ==
    IF JsGt(radius, Zero) THEN ClippedPoints(source.los.points, One, distance) ELSE <<>>

\* fovPoints without the test of line 47
FovPoints_Unguarded(source, radius, distance) ==
    ClippedPoints(source.los.points, Clamped(JsDiv(radius, distance), Zero, One), distance)

FovPoints(source, radius, distance) ==
    IF JsGt(radius, Zero)
    THEN ClippedPoints(source.los.points, Clamped(JsDiv(radius, distance), Zero, One), distance)
    ELSE <<>>

\* the cache after a call that did not hit it
CacheStore(cache, radius, fov, distance) ==
    IF cache.present
    THEN [cache EXCEPT !.entries = (radius :> fov) @@ cache.entries,
                       !.distance = IF JsGt(radius, Zero) THEN distance ELSE @]
    ELSE cache

\* the result of a call: the polygon returned, the cache after the call and
\* whether a polygon was constructed
Computed(radius, cache, fov, distance) ==
    [radius |-> radius, fov |-> fov, cache |-> CacheStore(cache, radius, fov, distance),
     made |-> TRUE, called |-> TRUE]

Construct(source, radius, cache, distance, id) ==
    Computed(radius, cache, Polygon(id[1], id[2], FovPoints(source, radius, distance)), distance)

\* computeFov(source, radius, fovCache); id names the polygon it may construct
computeFov(source, radius, cache, d, id) ==
    IF CacheHit(cache, radius)
    THEN [radius |-> radius, fov |-> cache.entries[radius], cache |-> cache,
          made |-> FALSE, called |-> TRUE]
    ELSE Construct(source, radius, cache, FovDistance(source, cache, d), id)

\* ------------------------------------------- patched PointSource.initialize

\* the host's fov: the line of sight limited to the radius
HostFovPoints(los, radius) == [i \in 1..Len(los) |-> [los[i] EXCEPT !.dist = JsMin(@, radius)]]

\* the length of the rays the host casts from the source: the radius, or the
\* distance to the farthest corner of the canvas when that is larger
HostDistance(c, radius) ==
    JsMax(radius,
          Hypot(IF c.source.x > c.dims.width - c.source.x
                   THEN c.source.x ELSE c.dims.width - c.source.x,
                IF c.source.y > c.dims.height - c.source.y
                   THEN c.source.y ELSE c.dims.height - c.source.y))

\* the host's line of sight: on each ray the obstruction met, or the ray's end
HostLosPoints(los, distance) ==
    [i \in 1..Len(los) |-> [los[i] EXCEPT !.dist = JsMin(@, distance)]]

\* The host's own initialize, wrapped(data): it sets the source's position and
\* radius, whether it is a source of darkness and the flag that has the next
\* drawLight reset the illumination uniforms, and constructs a new
\* line-of-sight polygon and a new fov polygon.
HostSource(c, s, radius, pass) ==
    [s EXCEPT !.x = c.source.x, !.y = c.source.y, !.radius = radius,
              !.darkness = c.source.darkness, !.resetUniforms = TRUE,
              !.los = Polygon(pass, 0, HostLosPoints(c.source.los, HostDistance(c, radius))),
              !.fov = Polygon(pass, 1, HostFovPoints(c.source.los, radius))]

HostInitialize(c, s, dim, bright, pass) ==
    HostSource(c, s, JsMax(JsAbs(dim), JsAbs(bright)), pass)

\* a computeFov call that a branch of initialize does not make
NotCalled(cache) ==
    [radius |-> NaN, fov |-> Null, cache |-> cache, made |-> FALSE, called |-> FALSE]

\* what the pass leaves of a call: the cache is local to the pass
CallRecord(r, s) ==
    [radius |-> r.radius, fov |-> r.fov, made |-> r.made, called |-> r.called,
     los |-> s.los.points]

\* The fields of this_, the state the module derives for a source (lines
\* 415-445)
DerivedFields ==
    {"radius", "fov", "fovMono", "fovColor", "fovDimToBright", "monoVisionColor"}

\* lines 421-450, after the four calls: the source when the pass returns, the
\* cache's seed and the calls made
Finish(c, L, s, pass, r1, r2, r3, r4) ==
    [src |-> [s EXCEPT !.fov = r1.fov,
                       !.los = IF r4.called THEN r4.fov ELSE @,
                       !.ext = [radius |-> L.extRadius,
                                fov |-> s.fov,
                                fovMono |-> IF ~c.token.original THEN r1.fov ELSE Null,
                                fovColor |-> r2.fov,
                                fovDimToBright |-> r3.fov,
                                monoVisionColor |->
                                    IF ~c.token.original THEN "color" ELSE Null,
                                at |-> [f \in DerivedFields |-> pass]]],
     seed |-> [radius |-> s.radius, fov |-> s.fov],
     calls |-> <<CallRecord(r1, s), CallRecord(r2, s), CallRecord(r3, s), CallRecord(r4, s)>>,
     cache |-> r4.cache]

\* line 448: this.los = computeFov(this, sightLimit, fovCache)
CallLos(c, L, s, pass, r1, r2, r3) ==
    Finish(c, L, s, pass, r1, r2, r3,
           IF ~IsNaN(L.sightLimit)
           THEN computeFov(s, L.sightLimit, r3.cache, c.dims, <<pass, 5>>)
           ELSE NotCalled(r3.cache))

\* line 438: this_.fovDimToBright
CallDimToBright(c, L, s, pass, r1, r2) ==
    CallLos(c, L, s, pass, r1, r2,
            IF JsGt(L.visionRadiusDimToBright, Zero) /\ ~c.token.original
            THEN computeFov(s, JsMax(L.visionRadiusDimToBright, L.minR), r2.cache, c.dims,
                            <<pass, 4>>)
            ELSE NotCalled(r2.cache))

\* line 433: this_.fovColor
CallColor(c, L, s, pass, r1) ==
    CallDimToBright(c, L, s, pass, r1,
                    IF JsGt(L.visionRadiusColor, Zero) /\ ~c.token.original
                    THEN computeFov(s, JsMax(L.visionRadiusColor, L.minR), r1.cache, c.dims,
                                    <<pass, 3>>)
                    ELSE NotCalled(r1.cache))

\* lines 423-425: the cache is created with the host's fov under the host's
\* radius, and this.fov = computeFov(this, Math.max(visionRadius, minR), fovCache)
CallFov(c, L, s, pass) ==
    CallColor(c, L, s, pass,
              computeFov(s, JsMax(L.visionRadius, L.minR), SeededCache(s.radius, s.fov),
                         c.dims, <<pass, 2>>))

\* A pass that does not raise, from the host's initialize on (lines 419-450)
Pass(c, L, s0, pass) == CallFov(c, L, HostInitialize(c, s0, L.dataDim, L.dataBright, pass), pass)

\* ---------------------------------------------------------------- the inputs

\* what the rays around a source meet, as (ray, distance) vertices: the host's
\* line of sight is this, limited to the length of the rays
Vertex(ray, dist) == [ray |-> ray, dist |-> Fin(dist)]
LosNear == <<Vertex(1, 10), Vertex(2, 20)>>
LosFar == <<Vertex(1, 10), Vertex(2, 40), Vertex(3, 120)>>

DefaultToken == [w |-> 4, h |-> 4, dimSight |-> 10, brightSight |-> 0, original |-> FALSE]
DefaultDims ==
    [distance |-> 5, size |-> 10, maxR |-> UndefNum, sceneWidth |-> 30, sceneHeight |-> 40,
     width |-> 60, height |-> 80]
DefaultTFlags ==
    [visionRules |-> Undefined, sightLimit |-> UndefinedText,
     dimVisionInDarkness |-> Undefined, dimVisionInDimLight |-> Undefined,
     brightVisionInDarkness |-> Undefined, brightVisionInDimLight |-> Undefined]
DefaultSFlags == [sightLimit |-> UndefinedText]
DefaultWorld ==
    [visionRules |-> "fvtt",
     dimVisionInDarkness |-> presets.fvtt.dimVisionInDarkness,
     dimVisionInDimLight |-> presets.fvtt.dimVisionInDimLight,
     brightVisionInDarkness |-> presets.fvtt.brightVisionInDarkness,
     brightVisionInDimLight |-> presets.fvtt.brightVisionInDimLight]
DefaultSource == [x |-> 30, y |-> 40, los |-> LosFar, darkness |-> FALSE]

\* token and scene sightLimit flags, as the text parseFloat reads
SightLimitTexts ==
    {UndefinedText, <<>>, <<"a", "b", "c">>, <<"0">>, <<"5">>, <<"-", "5">>,
     <<"2", ".", "5", "f", "t">>, <<"1", "0", "0", "0">>, InfinityText}

\* Inputs in which the rule flags and settings vary
RuleInputs ==
    [token  : {[DefaultToken EXCEPT !.brightSight = 5]},
     dims   : {DefaultDims},
     tflags : [visionRules : {Undefined, "", "default", "custom", "dnd5e", "pf2e", "homebrew"},
               sightLimit : {UndefinedText},
               dimVisionInDarkness : {Undefined, "scene_mono"},
               dimVisionInDimLight : {Undefined, "bright"},
               brightVisionInDarkness : {Undefined, "", "darkness"},
               brightVisionInDimLight : {Undefined}],
     sflags : {DefaultSFlags},
     world  : [visionRules : {"custom", "fvtt", "dnd35e"},
               dimVisionInDarkness : {"bright_mono", "darkness"},
               dimVisionInDimLight : {"dim", "bright"},
               brightVisionInDarkness : {"bright", "scene"},
               brightVisionInDimLight : {"bright"}],
     source : {DefaultSource}]

\* Inputs in which every assignment of the two darkness rules meets the radii
BranchInputs ==
    [token  : [w : {4}, h : {4}, dimSight : {-10, 0, 5, 30}, brightSight : {-10, 0, 5, 30},
               original : {FALSE}],
     dims   : {DefaultDims},
     tflags : [visionRules : {"custom"},
               sightLimit : {UndefinedText, <<"5">>},
               dimVisionInDarkness : DarknessTags,
               dimVisionInDimLight : {Undefined},
               brightVisionInDarkness : DarknessTags,
               brightVisionInDimLight : {Undefined}],
     sflags : {DefaultSFlags},
     world  : {DefaultWorld},
     source : {DefaultSource}]

\* Inputs in which the sight values, the scene's scale, the token's footprint
\* and the sightLimit flags vary
ScaleInputs ==
    [token  : [w : {0, 4}, h : {2}, dimSight : {-10, -5, 0, 5, 30}, brightSight : {0, 10},
               original : {FALSE}],
     dims   : [distance : {0, 5}, size : {0, 10}, maxR : {UndefNum}, sceneWidth : {30},
               sceneHeight : {40}, width : {60}, height : {80}]
              \cup {[DefaultDims EXCEPT !.maxR = Fin(20)]},
     tflags : [visionRules : {Undefined}, sightLimit : SightLimitTexts,
               dimVisionInDarkness : {Undefined}, dimVisionInDimLight : {Undefined},
               brightVisionInDarkness : {Undefined}, brightVisionInDimLight : {Undefined}],
     sflags : [sightLimit : {UndefinedText, <<"5">>, <<"x">>}],
     world  : {DefaultWorld},
     source : {DefaultSource}]

\* Inputs in which the source's place, its line of sight and the radii that
\* reach computeFov vary
FovInputs ==
    [token  : [w : {0, 4}, h : {4}, dimSight : {0, 5, 30}, brightSight : {0},
               original : BOOLEAN],
     dims   : {DefaultDims},
     tflags : [visionRules : {"custom"}, sightLimit : {UndefinedText, <<"0">>, <<"5">>},
               dimVisionInDarkness : {"dim", "scene_mono", "darkness"},
               dimVisionInDimLight : {Undefined, "bright"},
               brightVisionInDarkness : {"bright", "darkness"},
               brightVisionInDimLight : {Undefined}],
     sflags : {DefaultSFlags},
     world  : {DefaultWorld},
     source : [x : {30}, y : {40}, los : {<<>>, LosNear, LosFar}, darkness : {FALSE}]
              \cup [x : {0}, y : {0}, los : {LosFar}, darkness : {FALSE}]]

Inputs == RuleInputs \cup BranchInputs \cup ScaleInputs \cup FovInputs

\* the inputs computeFov is applied to on its own: the sources of FovInputs
\* after a pass, with these radii and a cache of each kind
FovCallInputs ==
    {c \in FovInputs : /\ ~c.token.original
                       /\ c.tflags.dimVisionInDarkness # "scene_mono"
                       /\ c.tflags.dimVisionInDimLight = Undefined
                       /\ c.tflags.brightVisionInDarkness = "darkness"
                       /\ c.tflags.sightLimit # <<"0">>}

FovRadii == {Fin(-5), Zero, Fin(12), Fin(50), Fin(120)}

CacheKinds == {"none", "empty", "seeded"}

\* line-of-sight polygons computeFov is applied to on its own: the last has a
\* vertex beyond the farthest corner of the canvas
FovLos == {LosNear, LosFar}

\* the values an update gives a token flag, a scene flag, a world setting
TokenFlagValues(f) ==
    IF f = "sightLimit" THEN {UndefinedText, <<"0">>, <<"5">>}
    ELSE IF f = "visionRules" THEN {Undefined, "custom", "homebrew"}
    ELSE IF f \in {"dimVisionInDarkness", "brightVisionInDarkness"}
         THEN {Undefined, "darkness", "scene_mono"}
    ELSE {Undefined, "bright"}

SceneFlagValues == {UndefinedText, <<"5">>}

SettingValues(f) ==
    IF f = "visionRules" THEN {"custom", "fvtt"}
    ELSE IF f \in {"dimVisionInDarkness", "brightVisionInDarkness"} THEN {"darkness", "bright"}
    ELSE DimLightTags

\* --------------------------------------------------- drawLight and the layers

\* a colour as its red, green and blue channels; NoColor is undefined
NoColor == <<-1, -1, -1>>

\* CONFIG.Canvas.daylightColor and CONFIG.Canvas.darknessColor of the host
ConfigColors == [daylight |-> <<238, 238, 238>>, darkness |-> <<36, 36, 72>>]

\* the scene's daylightColor flag: unset, "#000000", "#0f0f0f"
FlagColors == {NoColor, <<0, 0, 0>>, <<15, 15, 15>>}

\* lines 791-794: no channel of a colour is below 0xf
sanitize(hex) == [i \in 1..3 |-> IF hex[i] > 15 THEN hex[i] ELSE 15]

\* lines 778-800: the flag's colour, else the host's, sanitized
SceneColor(flag, config) == sanitize(IF flag # NoColor THEN flag ELSE config)

\* the layers before the illumination container is drawn; config is
\* CONFIG.Canvas as it is, call what the last call of _configureChannels found
\* in CONFIG.Canvas as it began and what the host's _configureChannels read
\* there
NoIlm ==
    [drawn |-> FALSE, gmRenderable |-> FALSE, visionRenderable |-> FALSE,
     daylightColor |-> NoColor, darknessColor |-> NoColor, updateChannels |-> FALSE,
     channels |-> FALSE, version |-> 0, sources |-> 0, tokenVision |-> TRUE,
     config |-> ConfigColors,
     call |-> [made |-> FALSE, before |-> ConfigColors, observed |-> ConfigColors]]

\* what the source's illumination container is before drawLight has returned
\* it: c.fov and c_.fov are what the two graphics have drawn, seen is what
\* the last call read, grays the conversions to grayscale and draws the
\* calls (counted to 2) since the channels or the source last changed
NoIll ==
    [returned |-> FALSE, fov |-> Null, ownFov |-> Null, own |-> FALSE, mask |-> "c.fov",
     lightVisible |-> FALSE, filter |-> "none", dupVisible |-> FALSE, dupFilters |-> FALSE,
     converted |-> FALSE, grays |-> 0, draws |-> 0,
     seen |-> [fov |-> <<0, 0>>, tokenVision |-> FALSE, sources |-> 0]]

\* a change that requires a conversion: the counts start again
Changed(I) == [I EXCEPT !.grays = 0, !.draws = 0]

\* line 482: const updateChannels = this._resetIlluminationUniforms ||
\* opts?.updateChannels || this._lightingVersion < canvas.lighting.version
UpdateChannels(s, L, o) == s.resetUniforms \/ o \/ s.lightingVersion < L.version

\* The host's drawLight, wrapped(opts), on a source with a shader: when the
\* uniforms are to be updated it writes them, clears the reset flag and takes
\* the lighting version.
HostDrawLight(s, L, o) ==
    IF UpdateChannels(s, L, o)
    THEN [s EXCEPT !.resetUniforms = FALSE, !.lightingVersion = L.version]
    ELSE s

OwnMask_Never(s) == FALSE

\* line 501: this_.fov && this_.fov !== this.fov
OwnMask(s) == s.ext.fov # Null /\ s.ext.fov.id # s.fov.id

LightVisible_HostRadius(s, L) == (L.tokenVision /\ L.sources > 0) /\ JsGt(s.radius, Zero)

\* line 521: c.light.visible = sight && this_.radius > 0, with sight of line 492
LightVisible(s, L) == (L.tokenVision /\ L.sources > 0) /\ JsGt(s.ext.radius, Zero)

\* lines 471-529, the patched drawLight on a vision source: opt is the
\* caller's updateChannels option, shader whether the source has a shader
\* (the host returns null when it has none). The host draws c.fov from the
\* source's fov when the source's radius is > 0. filter is c.light.filters[0]
\* of line 526: the MIN-blend filter for this.isDarkness ?? this.darkness.
drawLight(s, L, I, opt, shader) ==
    IF ~shader THEN [src |-> s, ill |-> [I EXCEPT !.returned = FALSE]]
    ELSE [src |-> HostDrawLight(s, L, L.updateChannels \/ opt),
          ill |-> [returned |-> TRUE,
                   fov |-> IF JsGt(s.radius, Zero) THEN s.fov ELSE Null,
                   own |-> OwnMask(s),
                   ownFov |-> IF OwnMask(s) /\ JsGt(s.ext.radius, Zero)
                              THEN s.ext.fov ELSE Null,
                   mask |-> IF OwnMask(s) THEN "c_.fov" ELSE "c.fov",
                   lightVisible |-> LightVisible(s, L),
                   filter |-> IF s.darkness THEN "min" ELSE "max",
                   dupVisible |-> FALSE,
                   dupFilters |-> FALSE,
                   converted |-> UpdateChannels(s, L, L.updateChannels \/ opt),
                   grays |-> (IF opt THEN 0 ELSE I.grays)
                             + (IF UpdateChannels(s, L, L.updateChannels \/ opt)
                                THEN 1 ELSE 0),
                   draws |-> IF opt \/ I.draws = 0 THEN 1 ELSE 2,
                   seen |-> [fov |-> s.fov.id, tokenVision |-> L.tokenVision,
                             sources |-> L.sources]]]

\* lines 799-805: the flag is raised and the channels dropped when a colour
\* differs from the stored one; the colours are stored
RaisedChannels(L, day, dark) ==
    [L EXCEPT !.updateChannels = day # L.daylightColor \/ dark # L.darknessColor,
              !.channels = IF day # L.daylightColor \/ dark # L.darknessColor
                           THEN FALSE ELSE @,
              !.daylightColor = day,
              !.darknessColor = dark]

ClearedChannels_Kept(L) == L

\* line 809: ilm_.updateChannels = null
ClearedChannels(L) == [L EXCEPT !.updateChannels = FALSE]

configureChannels_Unrestored(L) ==
    [L EXCEPT !.config = [daylight |-> L.daylightColor, darkness |-> L.darknessColor],
              !.call = [made |-> TRUE, before |-> L.config,
                        observed |-> [daylight |-> L.daylightColor,
                                      darkness |-> L.darknessColor]]]

\* lines 564-580, the patched _configureChannels: CONFIG.Canvas's colours are
\* saved (568-569), the stored colours put in their place (571-572), the
\* host's _configureChannels called, which reads CONFIG.Canvas (574), and the
\* saved colours put back (576-577)
configureChannels(L) ==
    LET saved == L.config
        substituted ==
            [L EXCEPT !.config = [daylight |-> L.daylightColor,
                                  darkness |-> L.darknessColor]]
        configured ==
            [substituted EXCEPT !.call = [made |-> TRUE, before |-> saved,
                                          observed |-> substituted.config]]
    IN  [configured EXCEPT !.config = saved]

\* The host's LightingLayer.refresh, wrapped(...args): it configures the
\* channels anew, by _configureChannels, and raises the version when the
\* darkness level changed or the channels are dropped, then draws the light
\* of each source: of the token's vision source when it is among the sight
\* sources.
HostRefresh(s, L, I, level) ==
    LET Lv == IF level \/ ~L.channels
              THEN configureChannels([L EXCEPT !.channels = TRUE, !.version = @ + 1])
              ELSE L
    IN  IF Lv.sources > 0 /\ s.fov # Null
        THEN [src |-> drawLight(s, Lv, I, FALSE, TRUE).src, ilm |-> Lv,
              ill |-> drawLight(s, Lv, I, FALSE, TRUE).ill]
        ELSE [src |-> s, ilm |-> Lv, ill |-> I]

\* lines 734-812, the patched LightingLayer.refresh with the scene's
\* daylightColor flag day and the darkness level changed or not
refreshLighting(s, L, I, day, level) ==
    [HostRefresh(s,
                 RaisedChannels(L, SceneColor(day, L.config.daylight),
                                SceneColor(NoColor, L.config.darkness)),
                 IF level \/ SceneColor(day, L.config.daylight) # L.daylightColor
                          \/ SceneColor(NoColor, L.config.darkness) # L.darknessColor
                 THEN Changed(I) ELSE I,
                 level)
     EXCEPT !.ilm = ClearedChannels(@)]

\* lines 913-919, Hooks.on("sightRefresh")
SightRefreshed(L) ==
    [L EXCEPT !.gmRenderable = L.sources = 0, !.visionRenderable = L.sources # 0]

\* refresh() before any call: the canvas is not ready, refreshHookID is null
\* (0), no canvasReady hook is registered; last and log are what the last
\* call did
NoRf == [ready |-> FALSE, hookID |-> 0, nextID |-> 1, hooks |-> 0, last |-> "none", log |-> <<>>]

Deferred_Unguarded(r) ==
    [r EXCEPT !.hookID = r.nextID, !.nextID = @ + 1, !.hooks = @ + 1,
              !.last = "deferred", !.log = <<>>]

\* lines 97-103: the canvas is not ready
Deferred(r) ==
    IF r.hookID = 0
    THEN [r EXCEPT !.hookID = r.nextID, !.nextID = @ + 1, !.hooks = @ + 1,
                   !.last = "deferred", !.log = <<>>]
    ELSE [r EXCEPT !.last = "deferred", !.log = <<>>]

\* lines 110-130: what a call with the canvas ready does, in order; the
\* update of a token's source that raises ends the call
RefreshLog(o, raised) ==
    (IF o.initialize /\ o.lighting THEN <<"lights">> ELSE <<>>)
    \o (IF o.initialize /\ o.sight THEN <<"tokens">> ELSE <<>>)
    \o (IF o.lighting /\ ~raised THEN <<"lighting">> ELSE <<>>)
    \o (IF o.sight /\ ~raised THEN <<"sight">> ELSE <<>>)

\* ------------------------------------------------------------ the state machine

\* this_ of a source no pass has reached; at is the pass that assigned each
\* field, 0 for none
NoExt ==
    [radius |-> UndefNum, fov |-> Null, fovMono |-> Null, fovColor |-> Null,
     fovDimToBright |-> Null, monoVisionColor |-> Null,
     at |-> [f \in DerivedFields |-> 0]]

NewSource ==
    [x |-> 0, y |-> 0, radius |-> UndefNum, fov |-> Null, los |-> Null, darkness |-> FALSE,
     resetUniforms |-> TRUE, lightingVersion |-> 0, ext |-> NoExt]

NoData == [dim |-> UndefNum, bright |-> UndefNum]

NoSeed == [radius |-> UndefNum, fov |-> Null]

NoLocals == [visionRadius |-> UndefNum]

NoCall ==
    [kind |-> "uncalled", radius |-> NaN, cache |-> NoCache, los |-> <<>>, distance |-> NaN,
     result |-> NotCalled(NoCache)]

\* a pass has given the source its line of sight
HasSource == src.los # Null

InitWith(inputs) ==
    /\ cfg \in inputs
    /\ src = NewSource
    /\ data = NoData
    /\ loc = NoLocals
    /\ seed = NoSeed
    /\ calls = <<>>
    /\ fovCache = NoCache
    /\ err = "none"
    /\ npass = 0
    /\ fc = NoCall
    /\ ilm = NoIlm
    /\ ill = NoIll
    /\ rf = NoRf

Init == InitWith(Inputs)

\* The state a call of the patched initialize leaves, the source apart. A
\* TypeError raised by the rule lookup (line 344) leaves everything as it was.
Commit(c, raised, L, P) ==
    /\ npass' = npass + 1
    /\ cfg' = c
    /\ err' = IF raised THEN "TypeError" ELSE "none"
    /\ loc' = IF raised THEN loc ELSE L
    /\ data' = IF raised THEN data ELSE [dim |-> L.dataDim, bright |-> L.dataBright]
    /\ seed' = IF raised THEN seed ELSE P.seed
    /\ calls' = IF raised THEN calls ELSE P.calls
    /\ fovCache' = IF raised THEN fovCache ELSE P.cache
    /\ UNCHANGED fc

Resolved(c, raised, L, P) ==
    /\ Commit(c, raised, L, P)
    /\ src' = IF raised THEN src ELSE P.src
    /\ ill' = IF raised THEN ill ELSE Changed(ill)
    /\ UNCHANGED <<ilm, rf>>

\* One call of the patched PointSource.prototype.initialize on the token's
\* vision source, with the host state c.
Initialize(c) ==
    /\ npass < MaxPasses
    /\ Resolved(c, RulesRaise(c), Locals(c), Pass(c, Locals(c), src, npass + 1))

\* token.updateSource() by the host or by refresh(): a pass on the state as it is
UpdateSource == Initialize(cfg)

\* A pass in which the host's own initialize, wrapped(data) of line 419,
\* throws: lines 337-417 have run, this_.radius of line 415 is assigned, and
\* nothing after line 419 runs. data, loc, seed and calls stay those of the
\* last pass that returned.
UpdateSourceHostThrows ==
    /\ npass < MaxPasses
    /\ ~RulesRaise(cfg)
    /\ npass' = npass + 1
    /\ err' = "HostError"
    /\ src' = [src EXCEPT !.ext.radius = Locals(cfg).extRadius,
                          !.ext.at.radius = npass + 1]
    /\ UNCHANGED <<cfg, data, loc, seed, calls, fovCache, fc, ilm, ill, rf>>

\* Hooks.on("updateToken"): a perfect-vision flag of the token changed
UpdateToken ==
    \E f \in DOMAIN cfg.tflags : \E v \in TokenFlagValues(f) :
        LET c == [cfg EXCEPT !.tflags[f] = v]
        IN  c # cfg /\ c \in Inputs /\ Initialize(c)

\* Hooks.on("updateScene"): a perfect-vision flag of the scene changed
UpdateScene ==
    \E v \in SceneFlagValues :
        LET c == [cfg EXCEPT !.sflags.sightLimit = v]
        IN  c # cfg /\ c \in Inputs /\ Initialize(c)

\* onChange of a world setting: refresh()
ChangeSetting ==
    \E f \in DOMAIN cfg.world : \E v \in SettingValues(f) :
        LET c == [cfg EXCEPT !.world[f] = v]
        IN  c # cfg /\ c \in Inputs /\ Initialize(c)

Next == UpdateSource \/ UpdateSourceHostThrows \/ UpdateToken \/ UpdateScene \/ ChangeSetting

Spec == Init /\ [][Next]_vars

\* The cache of each kind a call of computeFov is handed: none, an empty one,
\* or one seeded as line 423 seeds it, with the host's fov under the host's
\* radius.
CacheOfKind(kind) ==
    IF kind = "none" THEN NoCache
    ELSE IF kind = "empty" THEN EmptyCache
    ELSE SeededCache(seed.radius, seed.fov)

\* the source a pass left, with a line of sight of these vertices
SourceWithLos(los) == [src EXCEPT !.los.points = los]

Called(kind, radius, cache, los) ==
    [kind |-> kind, radius |-> radius, cache |-> cache, los |-> los,
     distance |-> FovDistance(src, cache, cfg.dims),
     result |-> computeFov(SourceWithLos(los), radius, cache, cfg.dims, <<npass, 9>>)]

\* computeFov(source, radius, fovCache) applied to the source a pass left, or
\* to that source with another line of sight and a cache that holds no polygon
CallComputeFov ==
    /\ HasSource
    /\ \E kind \in CacheKinds : \E radius \in FovRadii \cup {seed.radius} :
       \E los \in {src.los.points} \cup FovLos :
           /\ kind = "seeded" => los = src.los.points
           /\ fc' = Called(kind, radius, CacheOfKind(kind), los)
    /\ UNCHANGED <<cfg, src, data, loc, seed, calls, fovCache, err, npass, ilm, ill, rf>>

InitFov == Init /\ cfg \in FovCallInputs

NextFov == UpdateSource \/ CallComputeFov

SpecFov == InitFov /\ [][NextFov]_vars

\* The inputs drawLight, the layers and refresh() are run on: rule sets under
\* which computeFov constructs a polygon of its own or returns the host's,
\* radii that are zero or not, a source of darkness or not, and a token
\* whose visionRules flag names no preset
CanvasInputs ==
    {c \in [token  : [w : {4}, h : {4}, dimSight : {0, 5}, brightSight : {0, 10},
                      original : {FALSE}],
            dims   : {DefaultDims},
            tflags : [visionRules : {"custom", "homebrew"},
                      sightLimit : {UndefinedText},
                      dimVisionInDarkness : {"dim", "darkness"},
                      dimVisionInDimLight : {Undefined},
                      brightVisionInDarkness : {"scene"},
                      brightVisionInDimLight : {Undefined}],
            sflags : {DefaultSFlags},
            world  : {DefaultWorld},
            source : [x : {30}, y : {40}, los : {LosFar}, darkness : BOOLEAN]] :
        /\ c.tflags.visionRules = "homebrew"
               => (c.token.dimSight = 5 /\ c.token.brightSight = 0 /\ ~c.source.darkness
                   /\ c.tflags.dimVisionInDarkness = "dim")
        /\ c.source.darkness
               => (c.token.dimSight = 5 /\ c.token.brightSight = 10
                   /\ c.tflags.dimVisionInDarkness = "dim")
        /\ c.token.dimSight = 0
               => (c.token.brightSight = 0 /\ c.tflags.dimVisionInDarkness = "dim")}

\* the options of refresh(): lighting, sight, initialize
RefreshOptions ==
    {o \in [lighting : BOOLEAN, sight : BOOLEAN, initialize : BOOLEAN] :
        o.lighting \/ o.sight}

\* the host calls drawLight on the token's vision source
DrawLight ==
    /\ src.fov # Null
    /\ \E opt \in BOOLEAN : \E shader \in BOOLEAN :
           /\ src' = drawLight(src, ilm, ill, opt, shader).src
           /\ ill' = drawLight(src, ilm, ill, opt, shader).ill
    /\ UNCHANGED <<cfg, data, loc, seed, calls, fovCache, err, npass, fc, ilm, rf>>

\* the host calls LightingLayer.refresh: the scene's daylightColor flag is
\* day, the darkness level has changed or not. The lightingRefresh hook
\* (lines 900-911) that the host's refresh ends with sets tints and
\* improvedGMVision.visible, none of which is part of the state here.
LightingRefresh ==
    /\ ilm.drawn
    /\ \E day \in FlagColors : \E level \in BOOLEAN :
           /\ refreshLighting(src, ilm, ill, day, level).ilm.version <= MaxVersion
           /\ src' = refreshLighting(src, ilm, ill, day, level).src
           /\ ilm' = refreshLighting(src, ilm, ill, day, level).ilm
           /\ ill' = refreshLighting(src, ilm, ill, day, level).ill
    /\ UNCHANGED <<cfg, data, loc, seed, calls, fovCache, err, npass, fc, rf>>

\* The host draws the lighting layer while it draws the canvas: lines 582-599,
\* the patched _drawIlluminationContainer. The container is new, and so is
\* its extension; c_.vision is a new PIXI.Graphics, renderable as every
\* display object is until told otherwise.
DrawIlluminationContainer ==
    /\ ~rf.ready
    /\ ilm' = [ilm EXCEPT !.drawn = TRUE, !.gmRenderable = ilm.sources = 0,
                          !.visionRenderable = TRUE, !.daylightColor = NoColor,
                          !.darknessColor = NoColor, !.updateChannels = FALSE]
    /\ UNCHANGED <<cfg, src, data, loc, seed, calls, fovCache, err, npass, fc, ill, rf>>

\* the host's SightLayer.refresh calls the sightRefresh hook
SightRefresh ==
    /\ ilm.drawn
    /\ ilm' = SightRefreshed(ilm)
    /\ UNCHANGED <<cfg, src, data, loc, seed, calls, fovCache, err, npass, fc, ill, rf>>

\* the host adds or removes a sight source, or turns token vision on or off
SightSources ==
    /\ \E n \in {0, 1} : \E tv \in BOOLEAN :
           /\ ilm' = [ilm EXCEPT !.sources = n, !.tokenVision = tv]
           /\ ilm' # ilm
    /\ UNCHANGED <<cfg, src, data, loc, seed, calls, fovCache, err, npass, fc, ill, rf>>

\* lines 105-108 and 124-130: refreshHookID = null and Hooks.off("canvasReady",
\* refresh) when refreshHookID is not null; canvas.lighting.refresh(), then
\* canvas.sight.refresh(), on the source s and the container I that the
\* updates of lines 110-122 left
RefreshLayers(o, raised, r, day, s, I) ==
    /\ src' = IF o.lighting /\ ~raised
              THEN refreshLighting(s, ilm, I, day, FALSE).src ELSE s
    /\ ill' = IF o.lighting /\ ~raised
              THEN refreshLighting(s, ilm, I, day, FALSE).ill ELSE I
    /\ ilm' = IF raised THEN ilm
              ELSE IF o.lighting /\ o.sight
                   THEN SightRefreshed(refreshLighting(s, ilm, I, day, FALSE).ilm)
              ELSE IF o.lighting THEN refreshLighting(s, ilm, I, day, FALSE).ilm
              ELSE IF o.sight THEN SightRefreshed(ilm)
              ELSE ilm
    /\ rf' = [r EXCEPT !.hookID = 0,
                       !.hooks = IF r.hookID # 0 /\ @ > 0 THEN @ - 1 ELSE @,
                       !.last = "ran",
                       !.log = RefreshLog(o, raised)]

\* lines 105-130: refresh(o) with the canvas ready, r being the hooks as the
\* call finds them. token.updateSource() is a pass on the token's source.
RefreshRun(o, r, day) ==
    /\ (o.initialize /\ o.sight) => npass < MaxPasses
    /\ o.lighting => refreshLighting(src, ilm, ill, day, FALSE).ilm.version <= MaxVersion
    /\ IF o.initialize /\ o.sight
       THEN /\ Commit(cfg, RulesRaise(cfg), Locals(cfg),
                      Pass(cfg, Locals(cfg), src, npass + 1))
            /\ RefreshLayers(o, RulesRaise(cfg), r, day,
                             IF RulesRaise(cfg) THEN src
                             ELSE Pass(cfg, Locals(cfg), src, npass + 1).src,
                             IF RulesRaise(cfg) THEN ill ELSE Changed(ill))
       ELSE /\ RefreshLayers(o, FALSE, r, day, src, ill)
            /\ UNCHANGED <<cfg, data, loc, seed, calls, fovCache, err, npass, fc>>

\* lines 88-132 on a host up to 0.8.1: refresh(o)
Refresh ==
    IF ~rf.ready
    THEN /\ rf.hookID = 0 => rf.nextID <= MaxHookID
         /\ rf' = Deferred(rf)
         /\ UNCHANGED <<cfg, src, data, loc, seed, calls, fovCache, err, npass, fc, ilm, ill>>
    ELSE \E o \in RefreshOptions : \E day \in FlagColors : RefreshRun(o, rf, day)

\* The host has drawn the canvas: canvas.ready is true and the canvasReady
\* hooks are called. A hook registered with Hooks.once is removed, then
\* called with the canvas as its argument: refresh takes its options from
\* canvas.lighting and canvas.sight, which are layers, and canvas.initialize,
\* which is undefined.
CanvasReady ==
    /\ ~rf.ready
    /\ ilm.drawn
    /\ IF rf.hooks > 0
       THEN \E day \in FlagColors :
                RefreshRun([lighting |-> TRUE, sight |-> TRUE, initialize |-> TRUE],
                           [rf EXCEPT !.ready = TRUE, !.hooks = @ - 1],
                           day)
       ELSE /\ rf' = [rf EXCEPT !.ready = TRUE]
            /\ UNCHANGED <<cfg, src, data, loc, seed, calls, fovCache, err, npass, fc, ilm,
                           ill>>

\* the host tears the canvas down: it is not ready, its layers are gone
CanvasTearDown ==
    /\ rf.ready
    /\ rf' = [rf EXCEPT !.ready = FALSE]
    /\ ilm' = [ilm EXCEPT !.drawn = FALSE]
    /\ UNCHANGED <<cfg, src, data, loc, seed, calls, fovCache, err, npass, fc, ill>>

\* the passes, the drawing of the source's light and the events of the
\* illumination container's layers
NextDraw ==
    \/ UpdateSource \/ DrawIlluminationContainer \/ SightSources \/ SightRefresh
    \/ DrawLight \/ LightingRefresh

SpecDraw == InitWith(CanvasInputs) /\ [][NextDraw]_vars

\* the calls of refresh() as the canvas is drawn, made ready and torn down
NextRefresh ==
    DrawIlluminationContainer \/ SightSources \/ Refresh \/ CanvasReady \/ CanvasTearDown

\* refresh() is run on two rule sets and on the flag that names no preset
SpecRefresh ==
    /\ InitWith({c \in CanvasInputs : c.token.dimSight = 5 /\ c.token.brightSight = 0})
    /\ [][NextRefresh]_vars

\* ---------------------------------------------------------------- the claims

\* a pass has resolved, and loc, data, seed and calls are the ones it left
HasResolved == data # NoData

InRange(r, maxR) == JsGe(r, Zero) /\ JsLe(r, maxR)

BothRuleOutputsZero == JsEq(loc.ruleDim, Zero) /\ JsEq(loc.ruleBright, Zero)

RawSights == {-10, -5, 0, 5, 30}

\* the pass that left loc ran on cfg as it is now
LastPassResolved == HasResolved /\ err = "none"

WithDimSight(v) == [cfg EXCEPT !.token.dimSight = v]

WithBrightSight(v) == [cfg EXCEPT !.token.brightSight = v]

NotSmaller(a, b) == ~JsLt(a, b)

\* C2 as stated: for every raw dimSight (or brightSight), negative ones
\* included, a larger raw value with all else fixed gives a visionRadius that
\* is not smaller than the one the pass resolved.
C2_MonotoneInRawSight ==
    LastPassResolved =>
        /\ \A v \in RawSights : v >= cfg.token.dimSight =>
               NotSmaller(Locals(WithDimSight(v)).visionRadius, loc.visionRadius)
        /\ \A v \in RawSights : v >= cfg.token.brightSight =>
               NotSmaller(Locals(WithBrightSight(v)).visionRadius, loc.visionRadius)

\* C2 amended: among raw sight values >= 0, a larger raw dimSight (or
\* brightSight) with all else fixed gives a visionRadius that is not smaller;
\* a negative raw value counts with its absolute value.
C2_MonotoneInNonNegativeRawSight ==
    LastPassResolved =>
        /\ cfg.token.dimSight >= 0 =>
               \A v \in RawSights : v >= cfg.token.dimSight =>
                   NotSmaller(Locals(WithDimSight(v)).visionRadius, loc.visionRadius)
        /\ cfg.token.brightSight >= 0 =>
               \A v \in RawSights : v >= cfg.token.brightSight =>
                   NotSmaller(Locals(WithBrightSight(v)).visionRadius, loc.visionRadius)
        /\ Locals(WithDimSight(-cfg.token.dimSight)).visionRadius = loc.visionRadius
        /\ Locals(WithBrightSight(-cfg.token.brightSight)).visionRadius = loc.visionRadius

\* a pass on a non-negative raw dimSight for which a larger raw value gives a
\* strictly larger visionRadius, and a still larger one is cut off at maxR
C2_Witness ==
    /\ LastPassResolved /\ cfg.token.dimSight = 5
    /\ JsGt(loc.visionRadius, Zero)
    /\ JsGt(Locals(WithDimSight(30)).visionRadius, loc.visionRadius)
    /\ Locals(WithDimSight(30)).visionRadius = loc.maxR

\* C3: when both rule-derived outputs are zero, data.dim is minR and
\* data.bright is 0; otherwise data.dim is the rule-derived output; a token
\* with minR > 0 never has data.dim and data.bright both zero.
C3_ForcedMinimumDim ==
    HasResolved =>
        /\ loc.minR = Rat(IF cfg.token.w < cfg.token.h THEN cfg.token.w ELSE cfg.token.h, 2)
        /\ BothRuleOutputsZero => data.dim = loc.minR /\ JsEq(data.bright, Zero)
        /\ ~BothRuleOutputsZero => data.dim = loc.ruleDim /\ data.bright = loc.ruleBright
        /\ JsGt(loc.minR, Zero) => ~(JsEq(data.dim, Zero) /\ JsEq(data.bright, Zero))

\* a pass whose rules send both sights to darkness, on a token with a footprint
C3_Witness ==
    /\ HasResolved /\ BothRuleOutputsZero
    /\ JsGt(loc.dim, Zero) /\ JsGt(loc.minR, Zero)
    /\ data.dim = loc.minR

\* the sightLimit flag the claim describes: the token's, and the scene's only
\* when the token's parses to no number
TokenLimit == ParseFloat(cfg.tflags.sightLimit)

SceneLimit == ParseFloat(cfg.sflags.sightLimit)

FlagLimit == IF IsNaN(TokenLimit) THEN SceneLimit ELSE TokenLimit

FlagLimitPixels == getLightRadius(cfg, JsAbs(FlagLimit))

UnlimitedDim == JsMin(JsAbs(getLightRadius(cfg, Fin(cfg.token.dimSight))), loc.maxR)

UnlimitedBright == JsMin(JsAbs(getLightRadius(cfg, Fin(cfg.token.brightSight))), loc.maxR)

\* C4 as stated: a limit is present exactly when the token's flag, or failing
\* that the scene's, parses to a number; a present limit is the flag converted
\* like a radius and raised to at least minR, and dim and bright are both <=
\* it; with no limit dim and bright are as the clamp to maxR left them.
C4_SightLimitClamps ==
    LastPassResolved =>
        /\ loc.hasLimit = ~IsNaN(FlagLimit)
        /\ loc.hasLimit =>
               /\ loc.sightLimit \in {FlagLimitPixels, loc.minR}
               /\ JsGe(loc.sightLimit, FlagLimitPixels) /\ JsGe(loc.sightLimit, loc.minR)
               /\ JsLe(loc.dim, loc.sightLimit) /\ JsLe(loc.bright, loc.sightLimit)
               /\ loc.dim \in {UnlimitedDim, loc.sightLimit}
               /\ loc.bright \in {UnlimitedBright, loc.sightLimit}
        /\ ~loc.hasLimit => loc.dim = UnlimitedDim /\ loc.bright = UnlimitedBright

\* C5 as stated, on a scene whose unit distance and grid size are not zero:
\* 0 <= dim <= maxR and 0 <= bright <= maxR, and a sight limit that is present
\* is <= maxR in pixels.
C5_RadiusSetInvariant ==
    (HasResolved /\ cfg.dims.distance # 0 /\ cfg.dims.size # 0) =>
        /\ InRange(loc.dim, loc.maxR) /\ InRange(loc.bright, loc.maxR)
        /\ loc.hasLimit => JsLe(loc.sightLimit, loc.maxR)

\* C5 amended: dim and bright are never negative and never exceed maxR, and
\* are numbers in [0, maxR] unless the grid size is zero; a sight limit that
\* is present is never below minR and bounds dim and bright, but is not itself
\* cut off at maxR.
C5_RadiiWithinScene ==
    HasResolved =>
        /\ ~JsLt(loc.dim, Zero) /\ ~JsGt(loc.dim, loc.maxR)
        /\ ~JsLt(loc.bright, Zero) /\ ~JsGt(loc.bright, loc.maxR)
        /\ cfg.dims.size # 0 => InRange(loc.dim, loc.maxR) /\ InRange(loc.bright, loc.maxR)
        /\ loc.hasLimit =>
               /\ ~JsLt(loc.sightLimit, loc.minR)
               /\ ~JsGt(loc.dim, loc.sightLimit) /\ ~JsGt(loc.bright, loc.sightLimit)

\* a pass with a sight limit beyond the scene: the limit is larger than maxR,
\* and the raw sight, larger than the scene too, is cut off at maxR
C5_Witness ==
    /\ HasResolved /\ loc.hasLimit
    /\ JsGt(loc.sightLimit, loc.maxR)
    /\ loc.dim = loc.maxR /\ cfg.token.dimSight = 30

\* the value the stated precedence gives a rule field
RuleByPrecedence(f) ==
    IF cfg.tflags.visionRules = "custom"
        THEN IF Truthy(cfg.tflags[f]) THEN cfg.tflags[f] ELSE cfg.world[f]
    ELSE IF cfg.tflags.visionRules \in DOMAIN presets
        THEN presets[cfg.tflags.visionRules][f]
    ELSE IF cfg.world.visionRules \in DOMAIN presets
        THEN presets[cfg.world.visionRules][f]
    ELSE cfg.world[f]

TokenRulesKnown == cfg.tflags.visionRules \in {Undefined, "", "default", "custom"} \cup DOMAIN presets

\* C6: with a token visionRules flag that is "custom", a preset's name, absent
\* or "default", each of the four rule fields resolves to the token's own
\* flag, the named preset's value, the world preset's value, or failing those
\* the world setting of the same name; no field is left undefined.
C6_RulePrecedence ==
    (LastPassResolved /\ TokenRulesKnown) =>
        \A f \in RuleFields :
            /\ loc.rules[f] = RuleByPrecedence(f)
            /\ loc.rules[f] \in DarknessTags

\* a pass on a token with custom rules that sets one field itself and leaves
\* another to the world setting, under a world preset that says otherwise
C6_Witness ==
    /\ LastPassResolved
    /\ cfg.tflags.visionRules = "custom" /\ cfg.world.visionRules \in DOMAIN presets
    /\ Truthy(cfg.tflags.dimVisionInDarkness)
    /\ loc.rules.dimVisionInDarkness = cfg.tflags.dimVisionInDarkness
    /\ loc.rules.dimVisionInDarkness # cfg.world.dimVisionInDarkness
    /\ loc.rules.dimVisionInDarkness # presets[cfg.world.visionRules].dimVisionInDarkness
    /\ ~Truthy(cfg.tflags.brightVisionInDarkness)
    /\ loc.rules.brightVisionInDarkness = cfg.world.brightVisionInDarkness
    /\ loc.rules.brightVisionInDarkness
           # presets[cfg.world.visionRules].brightVisionInDarkness

\* C7 as stated: no pass raises to its caller, whatever the token's
\* visionRules flag names.
C7_NeverRaises == err # "TypeError"

\* C8 as stated: on a scene whose unit distance or grid size is zero,
\* getLightRadius gives zero for the token's raw sights and the radii dim and
\* bright of the pass are zero.
C8_DivisionGuard ==
    (LastPassResolved /\ (cfg.dims.distance = 0 \/ cfg.dims.size = 0)) =>
        /\ getLightRadius(cfg, Fin(cfg.token.dimSight)) = Zero
        /\ getLightRadius(cfg, Fin(cfg.token.brightSight)) = Zero
        /\ loc.dim = Zero /\ loc.bright = Zero

CallsMade == {i \in 1..Len(calls) : calls[i].called}

\* the pass that constructed a polygon
PassOf(polygon) == polygon.id[1]

\* C9: of the computeFov calls of one pass, which share one cache, a call with
\* the radius of an earlier call, or with the radius the cache was seeded
\* under, returns the very same polygon and constructs none; every polygon a
\* call returns was constructed in the pass that made the call, so none comes
\* from an earlier pass.
C9_MemoizedWithinPass ==
    HasResolved =>
        /\ \A i \in CallsMade : \A j \in CallsMade :
               (i < j /\ calls[i].radius = calls[j].radius)
                   => calls[j].fov = calls[i].fov /\ ~calls[j].made
        /\ \A i \in CallsMade :
               calls[i].radius = seed.radius => calls[i].fov = seed.fov /\ ~calls[i].made
        /\ \A i \in CallsMade :
               /\ PassOf(calls[i].fov) = PassOf(seed.fov)
               /\ PassOf(calls[i].fov) = PassOf(src.fov)
        /\ err = "none" => PassOf(seed.fov) = npass
        /\ DOMAIN fovCache.entries = {seed.radius} \cup {calls[i].radius : i \in CallsMade}

\* a second pass in which the dim-to-bright call asks for the radius the fov
\* call constructed a polygon for, and gets that polygon of the second pass
C9_Witness ==
    /\ HasResolved /\ npass = 2 /\ err = "none"
    /\ calls[1].made /\ calls[3].called /\ ~calls[3].made
    /\ calls[3].radius = calls[1].radius /\ calls[3].radius # seed.radius
    /\ calls[3].fov = calls[1].fov /\ calls[1].fov.points # <<>>
    /\ PassOf(calls[3].fov) = 2

RadiusZeroCalls == {i \in CallsMade : JsEq(calls[i].radius, Zero)}

\* C10 as stated: a call of computeFov with radius 0 returns a polygon with no
\* points, with no cache, an empty cache or the cache seeded with the host's
\* fov under the host's radius.
C10_RadiusZeroEmpty ==
    /\ (fc # NoCall /\ JsEq(fc.radius, Zero)) => fc.result.fov.points = <<>>
    /\ \A i \in RadiusZeroCalls : calls[i].fov.points = <<>>

\* C10 amended: a call of computeFov with radius 0 constructs and returns a
\* polygon with no points when the cache it is handed holds no entry under 0,
\* as with no cache, an empty cache, or a cache seeded under another radius;
\* when the cache holds an entry under 0, as the seeded cache does when the
\* host's radius is 0, the call returns that entry, points included.
C10_RadiusZeroEmptyUnlessCached ==
    /\ (fc # NoCall /\ JsEq(fc.radius, Zero)) =>
           /\ fc.kind \in {"none", "empty"} => fc.result.made
           /\ fc.result.made => fc.result.fov.points = <<>>
           /\ fc.result.made = ~(fc.cache.present /\ Zero \in DOMAIN fc.cache.entries)
           /\ ~fc.result.made => fc.result.fov = fc.cache.entries[Zero]
    /\ \A i \in RadiusZeroCalls :
           JsEq(seed.radius, Zero) /\ calls[i].fov = seed.fov /\ ~calls[i].made

\* a call with radius 0 and the cache seeded under the host's radius 0, which
\* returns the host's fov with its points, after a pass whose own call with
\* radius 0 did the same
C10_Witness ==
    /\ fc.kind = "seeded" /\ fc.radius = Zero
    /\ ~fc.result.made /\ fc.result.fov.points # <<>>
    /\ fc.result.fov = seed.fov
    /\ calls[1].called /\ calls[1].radius = Zero /\ calls[1].fov = seed.fov

\* the distance computeFov works with in the calls of the last pass
PassDistance == FovDistance(src, NoCache, cfg.dims)

SameVertices(fov, los) == fov.points = los

\* C11: a call of computeFov with radius >= distance returns a polygon whose
\* vertices are the vertices of the line of sight, in the same order.
C11_WholeLineOfSight ==
    /\ (fc # NoCall /\ JsGe(fc.radius, fc.distance)) => SameVertices(fc.result.fov, fc.los)
    /\ \A i \in CallsMade :
           JsGe(calls[i].radius, PassDistance) => SameVertices(calls[i].fov, calls[i].los)

\* a call with a radius beyond distance on a line of sight with a vertex
\* beyond distance, and a pass whose fov call asked for distance itself
C11_Witness ==
    /\ fc # NoCall /\ fc.result.made /\ JsGt(fc.radius, fc.distance)
    /\ Len(fc.los) = 3 /\ JsGt(fc.los[3].dist, fc.distance)
    /\ fc.result.fov.points = fc.los
    /\ calls[1].called /\ calls[1].radius = PassDistance /\ calls[1].los # <<>>

\* q is on the ray of p and no farther from the source
NoFarther(q, p) == q.ray = p.ray /\ JsLe(q.dist, p.dist)

Subset(fov, los) ==
    /\ Len(fov.points) = Len(los)
    /\ \A k \in 1..Len(los) : NoFarther(fov.points[k], los[k])

\* C12: for radius > 0 the polygon computeFov returns has one vertex per vertex
\* of the line of sight, on the same ray and no farther from the source.
C12_SubsetOfLineOfSight ==
    /\ (fc # NoCall /\ JsGt(fc.radius, Zero)) => Subset(fc.result.fov, fc.los)
    /\ \A i \in CallsMade : JsGt(calls[i].radius, Zero) => Subset(calls[i].fov, calls[i].los)

\* a call that left one vertex where it was and moved another nearer
C12_Witness ==
    /\ fc # NoCall /\ fc.result.made /\ JsGt(fc.radius, Zero)
    /\ Len(fc.los) = 3
    /\ fc.result.fov.points[1] = fc.los[1]
    /\ JsLt(fc.result.fov.points[3].dist, fc.los[3].dist)

FovLimit(radius, distance) == JsMin(One, JsMax(JsDiv(radius, distance), Zero))

\* the vertex the stated clipping gives for p
ClippedAsStated(q, p, radius, distance) ==
    /\ JsLe(JsDiv(p.dist, distance), FovLimit(radius, distance)) => q = p
    /\ ~JsLe(JsDiv(p.dist, distance), FovLimit(radius, distance)) =>
           q.ray = p.ray /\ q.dist = JsMul(FovLimit(radius, distance), distance)
    /\ JsLe(q.dist, radius)

\* C13 as stated, for radius > 0: a vertex whose distance divided by distance
\* is <= limit is kept, any other vertex is moved to limit * distance, and no
\* vertex returned is farther than radius, whatever its distance was.
C13_RadialClipping ==
    /\ (fc # NoCall /\ JsGt(fc.radius, Zero)) =>
           /\ Len(fc.result.fov.points) = Len(fc.los)
           /\ \A k \in 1..Len(fc.los) :
                  ClippedAsStated(fc.result.fov.points[k], fc.los[k], fc.radius, fc.distance)
    /\ \A i \in CallsMade : JsGt(calls[i].radius, Zero) =>
           /\ Len(calls[i].fov.points) = Len(calls[i].los)
           /\ \A k \in 1..Len(calls[i].los) :
                  ClippedAsStated(calls[i].fov.points[k], calls[i].los[k],
                                  calls[i].radius, PassDistance)

\* the vertex computeFov gives for p: a vertex beyond distance counts as one
\* at distance
ClippedWithinDistance(q, p, radius, distance) ==
    IF JsLe(p.dist, distance)
    THEN ClippedAsStated(q, p, radius, distance)
    ELSE /\ JsGe(radius, distance) => q = p
         /\ JsLt(radius, distance) =>
                q.ray = p.ray /\ q.dist = JsMul(FovLimit(radius, distance), p.dist)

\* C13 amended, for radius > 0: for a vertex no farther from the source than
\* distance the stated clipping holds and the vertex returned is no farther
\* than radius; a vertex farther than distance is kept when radius >= distance
\* and is otherwise moved to limit times its own distance, beyond radius.
C13_RadialClippingWithinDistance ==
    /\ (fc # NoCall /\ JsGt(fc.radius, Zero)) =>
           /\ Len(fc.result.fov.points) = Len(fc.los)
           /\ \A k \in 1..Len(fc.los) :
                  ClippedWithinDistance(fc.result.fov.points[k], fc.los[k],
                                        fc.radius, fc.distance)
    /\ \A i \in CallsMade : JsGt(calls[i].radius, Zero) =>
           /\ Len(calls[i].fov.points) = Len(calls[i].los)
           /\ \A k \in 1..Len(calls[i].los) :
                  /\ JsLe(calls[i].los[k].dist, PassDistance)
                  /\ ClippedAsStated(calls[i].fov.points[k], calls[i].los[k],
                                     calls[i].radius, PassDistance)

\* a call on a line of sight within distance that kept one vertex and moved
\* another to the radius
C13_Witness ==
    /\ fc # NoCall /\ fc.result.made /\ JsGt(fc.radius, Zero) /\ JsLt(fc.radius, fc.distance)
    /\ Len(fc.los) = 2 /\ JsLe(fc.los[2].dist, fc.distance)
    /\ fc.result.fov.points[1] = fc.los[1]
    /\ fc.result.fov.points[2].dist = fc.radius
    /\ JsGt(fc.los[2].dist, fc.radius)

\* C19 as stated: in every pass visionRadiusColor <= visionRadius.
C19_ColorWithinVision ==
    HasResolved => JsLe(loc.visionRadiusColor, loc.visionRadius)

\* C18 as stated: the derived state of a source is assigned only as a pass
\* ends, so in no state, the one after a pass in which the host's own
\* initialize throws included, does the source hold derived fields assigned
\* by different passes; and once a pass has returned every derived field is
\* the one that pass assigned.
C18_DerivedStateOfOnePass ==
    /\ \A f, g \in DerivedFields :
           (src.ext.at[f] > 0 /\ src.ext.at[g] > 0) => src.ext.at[f] = src.ext.at[g]
    /\ (err = "none" /\ npass > 0) => \A f \in DerivedFields : src.ext.at[f] = npass

\* the polygon the illumination container is masked by: what the graphics
\* that is c.mask has drawn
MaskShape == IF ill.mask = "c_.fov" THEN ill.ownFov ELSE ill.fov

\* drawLight has returned the container of the source as the last pass left it
DrawnAfterPass == ill.returned /\ ill.seen.fov = src.fov.id

\* C14 as stated: after drawLight on a vision source the illumination
\* container is masked by the polygon computed from visionRadius, the one
\* initialize installed as the source's fov.
C14_MaskedByVisionFov == DrawnAfterPass => MaskShape.points = src.fov.points

\* C14, amended: the mask is the host's own fov polygon, the one for the
\* radius the host was given: held by a graphics of the module, and empty
\* unless this_.radius > 0, when computeFov constructed a polygon of its own;
\* held by the host's graphics, and empty unless the source's radius is > 0,
\* when computeFov returned the host's polygon.
C14_MaskedByHostFov ==
    DrawnAfterPass =>
        /\ ill.mask = (IF src.ext.fov.id # src.fov.id THEN "c_.fov" ELSE "c.fov")
        /\ MaskShape.points =
               IF JsGt(IF src.ext.fov.id # src.fov.id THEN src.ext.radius ELSE src.radius,
                       Zero)
               THEN HostFovPoints(cfg.source.los, src.radius)
               ELSE <<>>

\* C14's case: drawLight has masked the container of a source whose fov
\* computeFov constructed, by the host's polygon, which is another shape
C14_Witness ==
    /\ DrawnAfterPass
    /\ ill.mask = "c_.fov"
    /\ MaskShape.points # <<>>
    /\ MaskShape.points # src.fov.points

\* drawLight has returned the container, and neither the source nor the sight
\* layer has changed since
DrawnNow ==
    /\ DrawnAfterPass
    /\ ill.seen.tokenVision = ilm.tokenVision
    /\ ill.seen.sources = ilm.sources

\* C15: after drawLight on a vision source, c.light is visible exactly when
\* token vision is enabled, there is a sight source and this_.radius > 0;
\* its first filter is the MIN-blend filter for a source of darkness and the
\* MAX-blend filter otherwise; the duplicate mesh is hidden and has no
\* filters.
C15_LightOfVisionSource ==
    DrawnNow =>
        /\ ill.lightVisible
               <=> (ilm.tokenVision /\ ilm.sources >= 1 /\ JsGt(src.ext.radius, Zero))
        /\ src.darkness => ill.filter = "min"
        /\ ~src.darkness => ill.filter = "max"
        /\ ~ill.dupVisible
        /\ ~ill.dupFilters

\* C15's case: the light of a source of darkness has been drawn visible
C15_Witness == DrawnNow /\ ill.lightVisible /\ ill.filter = "min"

\* C16 as stated: from the drawing of the illumination container on, the
\* improved-GM-vision layer is renderable exactly when there is no sight
\* source and the vision layer exactly when there is one, so that the two
\* are never renderable together.
C16_LayersExclusive ==
    ilm.drawn =>
        /\ ~(ilm.gmRenderable /\ ilm.visionRenderable)
        /\ ilm.gmRenderable <=> ilm.sources = 0
        /\ ilm.visionRenderable <=> ilm.sources >= 1

\* C17: the patched LightingLayer.refresh has cleared updateChannels when it
\* returns, and between two changes that require it (a colour or a darkness
\* level that differs, the source's reset flag raised by a pass, the
\* caller's updateChannels option) the colours of a vision source are
\* converted to grayscale once at most, however often drawLight is called.
C17_ConvertedOncePerChange ==
    /\ ~ilm.updateChannels
    /\ ill.grays <= 1

\* C17's case: drawLight was called twice since the last change; the first
\* call converted, the second did not
C17_Witness == ill.returned /\ ill.draws = 2 /\ ill.grays = 1 /\ ~ill.converted

\* the place of an operation in the order of lines 110-130
Rank(op) ==
    IF op = "lights" THEN 1 ELSE IF op = "tokens" THEN 2 ELSE IF op = "lighting" THEN 3 ELSE 4

InOrder(log) == \A i, j \in 1..Len(log) : i < j => Rank(log[i]) < Rank(log[j])

\* a call of refresh() made while the canvas is not ready
DeferredCall == rf' # rf /\ rf'.last = "deferred"

\* C20: on a host up to 0.8.1 at most one canvasReady hook of refresh is
\* registered, and refreshHookID is non-null exactly while one is; a call
\* made while the canvas is not ready leaves that one hook and updates no
\* source and refreshes no layer; once the canvas is ready refreshHookID is
\* null and no hook is left, and a call that runs updates the light sources,
\* then the token sources, then refreshes the lighting layer, then the sight
\* layer.
C20_DeferredRefresh ==
    /\ [](/\ rf.hooks <= 1
          /\ rf.hookID # 0 <=> rf.hooks = 1
          /\ rf.ready => rf.hookID = 0
          /\ rf.last = "deferred" => (~rf.ready /\ rf.hooks = 1 /\ rf.log = <<>>)
          /\ rf.last = "ran" => InOrder(rf.log))
    /\ [][DeferredCall => UNCHANGED <<src, ilm, ill, npass, cfg, err>>]_vars

\* C20's case: the canvasReady hook that a call registered has run refresh,
\* which updated the sources and refreshed the two layers
C20_Witness ==
    /\ rf.ready
    /\ rf.nextID > 1
    /\ rf.last = "ran"
    /\ rf.log = <<"lights", "tokens", "lighting", "sight">>
    /\ npass = 1

\* C21: whenever the patched _configureChannels has returned, CONFIG.Canvas
\* holds the daylight and darkness colours it held before the call, the
\* host's own; and what the host's _configureChannels read there during the
\* call are the colours the module has stored, those of the scene's flags.
C21_ConfigRestored ==
    ilm.call.made =>
        /\ ilm.config = ilm.call.before
        /\ ilm.config = ConfigColors
        /\ ilm.daylightColor # NoColor
               => ilm.call.observed = [daylight |-> ilm.daylightColor,
                                       darkness |-> ilm.darknessColor]

\* C21's case: the host's _configureChannels has read a daylight colour
\* stored from the scene's flag, which is not the one CONFIG.Canvas holds
\* before and after the call
C21_Witness ==
    /\ ilm.call.made
    /\ ilm.call.observed.daylight = ilm.daylightColor
    /\ ilm.call.observed.daylight # ilm.call.before.daylight
    /\ ilm.config = ilm.call.before

====
